---- MODULE Spec2Model ----
(***************************************************************************)
(* State-machine model of yuanbao-chat2api's completion pipeline           *)
(* (src/src/yuanbao.rs; src/src/service.rs holds a copy of the same         *)
(* Yuanbao impl):                                                           *)
(*   - ChatMessages rendering (impl Display) and ChatModel projections,     *)
(*   - Yuanbao::create_completion (request build, EventSource creation,     *)
(*     channel creation, task spawn),                                       *)
(*   - Yuanbao::process_sse, one action per iteration of its loop,          *)
(*   - the consumer of the returned async_channel Receiver.                 *)
(* Every variable is a function over the request ids of the run, so that    *)
(* each in-flight request has its own EventSource, task and channel.        *)
(* Specifications: Spec (one request, the whole pipeline), SpecTypes (the   *)
(* same on frames that mix type and stopReason), SpecMulti (two requests   *)
(* in flight), SpecRender (model-name parsing and prompt rendering over     *)
(* many inputs).                                                            *)
(***************************************************************************)
EXTENDS Integers, Sequences, FiniteSets, TLC

\* Bound: how many SSE Message events the upstream delivers on one request.
MaxFrames == 3

\* Bound: how many messages a conversation to be rendered has.
MaxMessages == 2

VARIABLES
    parse,          \* the model name a call arrived with, and what ChatModel::from_str made of it
    request,        \* the ChatCompletionRequest each create_completion call is given
    result,         \* outcome of create_completion: "not_called", "Ok", "Err", "panic"
    body,           \* the upstream request body built by create_completion
    upstream,       \* the Ok items (Open, Message) sse.next() has yielded so far, in order
    sse,            \* the EventSource: "absent", "connecting", "open", "dropped"
    task,           \* the spawned process_sse: "unspawned", "streaming", or how it returned:
                    \* "Ok", "ErrStream" (stream error), "ErrSend" (send of a Message
                    \* failed), "ErrSendFinish" (send of the Finish failed)
    finish_reason,  \* process_sse's local finish_reason
    queue,          \* the channel's buffered events (unbounded FIFO)
    sender,         \* the Sender half: "none", "alive", "dropped"
    receiver,       \* the Receiver half: "none", "held", "saw_closed", "dropped"
    received,       \* the events the consumer has taken off the channel, in order
    drained         \* how many Message events process_sse has read since the Receiver was dropped

vars == <<parse, request, result, body, upstream, sse, task, finish_reason, queue, sender,
          receiver, received, drained>>

Rids == DOMAIN task

(***************************************************************************)
(* Option<T>                                                               *)
(***************************************************************************)
Some(v) == [some |-> TRUE, v |-> v]

None(default) == [some |-> FALSE, v |-> default]

unwrap_or(opt, default) == IF opt.some THEN opt.v ELSE default

(***************************************************************************)
(* ChatCompletionEvent (yuanbao.rs 14-33)                                  *)
(***************************************************************************)
Message(type, text) == [tag |-> "Message", type |-> type, text |-> text]

Finish(reason) == [tag |-> "Finish", type |-> "", text |-> reason]

Error(err) == [tag |-> "Error", type |-> "", text |-> err]

(***************************************************************************)
(* Strings that the code takes apart (trim) are sequences of characters.   *)
(***************************************************************************)
Whitespace == {" ", "\n", "\t"}

RECURSIVE trim_start(_)
trim_start(s) ==
    IF s # <<>> /\ Head(s) \in Whitespace THEN trim_start(Tail(s)) ELSE s

RECURSIVE trim_end(_)
trim_end(s) ==
    IF s # <<>> /\ s[Len(s)] \in Whitespace
    THEN trim_end(SubSeq(s, 1, Len(s) - 1))
    ELSE s

trim(s) == trim_end(trim_start(s))

\* Mutant of render_block: the role is written as given, untrimmed.
render_block_raw_role(item) ==
    <<"#", "[">> \o item.role \o <<"]", "\n">>
        \o trim(unwrap_or(item.content, <<>>)) \o <<"\n", "\n">>

\* One write!(f, "#[{}]\n{}\n\n", role.trim(), content.trim()) of the loop.
render_block(item) ==
    <<"#", "[">> \o trim(item.role) \o <<"]", "\n">>
        \o trim(unwrap_or(item.content, <<>>)) \o <<"\n", "\n">>

RECURSIVE render_blocks(_)
render_blocks(arr) ==
    IF arr = <<>> THEN <<>>
    ELSE render_block(Head(arr)) \o render_blocks(Tail(arr))

\* impl Display for ChatMessages: Err(fmt::Error) on an empty list, the
\* content verbatim for one message, one block per message otherwise.
fmt(arr) ==
    IF arr = <<>> THEN [ok |-> FALSE, out |-> <<>>]
    ELSE IF Len(arr) = 1
         THEN [ok |-> TRUE, out |-> unwrap_or(arr[1].content, <<>>)]
         ELSE [ok |-> TRUE, out |-> render_blocks(arr)]

\* ToString::to_string over Display: it panics when fmt returns an error
\* ("a Display implementation returned an error unexpectedly").
to_string(arr) ==
    LET r == fmt(arr)
    IN  IF r.ok THEN [panic |-> FALSE, out |-> r.out]
        ELSE [panic |-> TRUE, out |-> <<>>]

(***************************************************************************)
(* ChatModel                                                               *)
(***************************************************************************)
ChatModel == {"DeepSeekV3", "DeepSeekR1"}

\* Mutant of ChatModel_from_str: the name is matched without regard to case.
ChatModel_from_str_any_case(s) ==
    CASE s \in {"deepseek-r1", "DeepSeek-R1"} -> [ok |-> TRUE, v |-> "DeepSeekR1"]
      [] s \in {"deepseek-v3", "DeepSeek-V3"} -> [ok |-> TRUE, v |-> "DeepSeekV3"]
      [] OTHER -> [ok |-> FALSE, v |-> "invalid model"]

ChatModel_from_str(s) ==
    CASE s = "deepseek-r1" -> [ok |-> TRUE, v |-> "DeepSeekR1"]
      [] s = "deepseek-v3" -> [ok |-> TRUE, v |-> "DeepSeekV3"]
      [] OTHER -> [ok |-> FALSE, v |-> "invalid model"]

as_yuanbao_string(m) ==
    CASE m = "DeepSeekV3" -> "deep_seek_v3"
      [] m = "DeepSeekR1" -> "deep_seek"

as_common_string(m) ==
    CASE m = "DeepSeekV3" -> "deepseek-v3"
      [] m = "DeepSeekR1" -> "deepseek-r1"

(***************************************************************************)
(* serde_json::Value, as far as process_sse looks into it                  *)
(***************************************************************************)
JNull == [t |-> "Null", s |-> ""]

JString(s) == [t |-> "String", s |-> s]

JNumber(s) == [t |-> "Number", s |-> s]

JObject(fields) == [t |-> "Object", f |-> fields]

\* value[key]: Null unless value is an object that has the key.
Index(value, key) ==
    IF value.t = "Object" /\ key \in DOMAIN value.f THEN value.f[key] ELSE JNull

\* Value::as_str: Some only for a JSON string.
as_str(v) == IF v.t = "String" THEN Some(v.s) ELSE None("")

\* The SSE data payloads the upstream is modelled to send (raw text).
P_ThinkA == "{\"type\":\"think\",\"content\":\"a\"}"

P_ThinkEmpty == "{\"type\":\"think\",\"content\":\"\"}"

P_ThinkStop == "{\"type\":\"think\",\"stopReason\":\"length\"}"

P_ThinkNum == "{\"type\":\"think\",\"content\":7}"

P_TextB == "{\"type\":\"text\",\"msg\":\"b\"}"

P_TextEmpty == "{\"type\":\"text\",\"msg\":\"\"}"

P_TextStop == "{\"type\":\"text\",\"stopReason\":\"length\"}"

P_MetaLength == "{\"type\":\"meta\",\"stopReason\":\"length\"}"

P_MetaEmpty == "{\"type\":\"meta\",\"stopReason\":\"\"}"

P_NoTypeTool == "{\"stopReason\":\"tool\"}"

P_NumType == "{\"type\":1,\"content\":\"a\"}"

P_Truncated == "{\"type\":\"text\",\"msg\":\"b\""

\* Payloads that put a stopReason on a think or text frame, and payloads
\* without a type that is a string.
P_ThinkAStop == "{\"type\":\"think\",\"content\":\"a\",\"stopReason\":\"tool\"}"

P_ThinkEmptyStop == "{\"type\":\"think\",\"content\":\"\",\"stopReason\":\"tool\"}"

P_TextBStop == "{\"type\":\"text\",\"msg\":\"b\",\"stopReason\":\"tool\"}"

P_NumTypeStop == "{\"type\":1,\"stopReason\":\"tool\"}"

P_NoTypeNumStop == "{\"stopReason\":5}"

P_EmptyObject == "{}"

Payloads ==
    {P_ThinkA, P_ThinkEmpty, P_ThinkStop, P_ThinkNum, P_TextB, P_TextEmpty, P_TextStop,
     P_MetaLength, P_MetaEmpty, P_NoTypeTool, P_NumType, P_Truncated}

\* serde_json::from_str::<Value> on those payloads: the parsed value, or a
\* syntax error for text that is not JSON.
serde_json_from_str(data) ==
    CASE data = P_ThinkA ->
            [ok |-> TRUE, v |-> JObject(("type" :> JString("think")) @@ ("content" :> JString("a")))]
      [] data = P_ThinkEmpty ->
            [ok |-> TRUE, v |-> JObject(("type" :> JString("think")) @@ ("content" :> JString("")))]
      [] data = P_ThinkStop ->
            [ok |-> TRUE, v |-> JObject(("type" :> JString("think")) @@ ("stopReason" :> JString("length")))]
      [] data = P_ThinkNum ->
            [ok |-> TRUE, v |-> JObject(("type" :> JString("think")) @@ ("content" :> JNumber("7")))]
      [] data = P_TextB ->
            [ok |-> TRUE, v |-> JObject(("type" :> JString("text")) @@ ("msg" :> JString("b")))]
      [] data = P_TextEmpty ->
            [ok |-> TRUE, v |-> JObject(("type" :> JString("text")) @@ ("msg" :> JString("")))]
      [] data = P_TextStop ->
            [ok |-> TRUE, v |-> JObject(("type" :> JString("text")) @@ ("stopReason" :> JString("length")))]
      [] data = P_MetaLength ->
            [ok |-> TRUE, v |-> JObject(("type" :> JString("meta")) @@ ("stopReason" :> JString("length")))]
      [] data = P_MetaEmpty ->
            [ok |-> TRUE, v |-> JObject(("type" :> JString("meta")) @@ ("stopReason" :> JString("")))]
      [] data = P_NoTypeTool ->
            [ok |-> TRUE, v |-> JObject("stopReason" :> JString("tool"))]
      [] data = P_NumType ->
            [ok |-> TRUE, v |-> JObject(("type" :> JNumber("1")) @@ ("content" :> JString("a")))]
      [] data = P_ThinkAStop ->
            [ok |-> TRUE, v |-> JObject(("type" :> JString("think")) @@ ("content" :> JString("a"))
                                            @@ ("stopReason" :> JString("tool")))]
      [] data = P_ThinkEmptyStop ->
            [ok |-> TRUE, v |-> JObject(("type" :> JString("think")) @@ ("content" :> JString(""))
                                            @@ ("stopReason" :> JString("tool")))]
      [] data = P_TextBStop ->
            [ok |-> TRUE, v |-> JObject(("type" :> JString("text")) @@ ("msg" :> JString("b"))
                                            @@ ("stopReason" :> JString("tool")))]
      [] data = P_NumTypeStop ->
            [ok |-> TRUE, v |-> JObject(("type" :> JNumber("1")) @@ ("stopReason" :> JString("tool")))]
      [] data = P_NoTypeNumStop ->
            [ok |-> TRUE, v |-> JObject("stopReason" :> JNumber("5"))]
      [] data = P_EmptyObject ->
            [ok |-> TRUE, v |-> JObject(<<>>)]
      [] OTHER ->
            [ok |-> FALSE, v |-> JNull]

(***************************************************************************)
(* reqwest_eventsource: what sse.next() yields                             *)
(***************************************************************************)
Item(kind, event, data) == [kind |-> kind, event |-> event, data |-> data]

EvOpen == Item("Open", "", "")

EvMessage(event, data) == Item("Message", event, data)

\* The Message events of the model: every payload under the event name
\* "message", and two control frames under another event name.
Messages ==
    {EvMessage("message", d) : d \in Payloads}
        \cup {EvMessage("status", P_MetaLength), EvMessage("status", P_TextB)}

\* The errors that end the handshake, and those that break an open stream.
ConnectErrors == {"InvalidStatusCode", "Transport"}

StreamErrors == {"Transport", "Utf8"}

(***************************************************************************)
(* create_completion                                                       *)
(***************************************************************************)
M_User == [role |-> <<" ", "u">>, content |-> Some(<<"h", "i", " ">>),
           reasoning_content |-> None(<<>>)]

M_Assistant == [role |-> <<"a">>, content |-> None(<<>>),
                reasoning_content |-> None(<<>>)]

\* The ChatCompletionRequest values create_completion is called with: an
\* empty conversation, and one of two turns.
Requests ==
    {[messages |-> <<>>, chat_model |-> "DeepSeekR1"],
     [messages |-> <<M_User, M_Assistant>>, chat_model |-> "DeepSeekV3"]}

NoBody == [prompt |-> <<>>, displayPrompt |-> <<>>, chatModelId |-> ""]

\* json!({...}): the fields of the body that depend on the request.
make_body(prompt, chat_model) ==
    [prompt |-> prompt, displayPrompt |-> prompt,
     chatModelId |-> as_yuanbao_string(chat_model)]

\* self.client.post(&formatted_url).json(&body): a request whose body is a
\* buffer, which RequestBuilder::try_clone can always copy.
post_json(b) == [body |-> b, clonable |-> TRUE]

\* Mutant of EventSource_new: the source is returned only once connected.
EventSource_new_connected(builder) ==
    IF builder.clonable THEN [ok |-> TRUE, state |-> "open"]
    ELSE [ok |-> FALSE, state |-> "absent"]

\* EventSource::new(builder): fails only when the request cannot be cloned.
\* No connection is made here: the request is sent when the EventSource is
\* first polled, in process_sse.
EventSource_new(builder) ==
    IF builder.clonable THEN [ok |-> TRUE, state |-> "connecting"]
    ELSE [ok |-> FALSE, state |-> "absent"]

\* Mutant of InitialFinishReason: the reason starts empty.
InitialFinishReason_empty == ""

\* let mut finish_reason = "stop".to_string();
InitialFinishReason == "stop"

(***************************************************************************)
(* process_sse: the arms of the loop body. Each yields what the iteration  *)
(* sends and the finish_reason it leaves.                                  *)
(***************************************************************************)
Step(send, reason) == [send |-> send, finish_reason |-> reason]

\* Mutant of think_arm: a non-empty stopReason on the frame is taken over.
think_arm_reads_stop(value, reason) ==
    LET content == unwrap_or(as_str(Index(value, "content")), "")
        stop_reason == unwrap_or(as_str(Index(value, "stopReason")), "")
        kept == IF stop_reason # "" THEN stop_reason ELSE reason
    IN  IF content = "" THEN Step(<<>>, kept)
        ELSE Step(<<Message("Think", content)>>, kept)

\* "think" => content, skipped when empty.
think_arm(value, reason) ==
    LET content == unwrap_or(as_str(Index(value, "content")), "")
    IN  IF content = "" THEN Step(<<>>, reason)
        ELSE Step(<<Message("Think", content)>>, reason)

\* Mutant of text_arm: an empty msg is skipped, as an empty think is.
text_arm_skips_empty(value, reason) ==
    LET msg == unwrap_or(as_str(Index(value, "msg")), "")
    IN  IF msg = "" THEN Step(<<>>, reason)
        ELSE Step(<<Message("Msg", msg)>>, reason)

\* "text" => msg, sent whatever it is.
text_arm(value, reason) ==
    LET msg == unwrap_or(as_str(Index(value, "msg")), "")
    IN  Step(<<Message("Msg", msg)>>, reason)

\* Mutant of other_arm: stopReason replaces finish_reason even when empty.
other_arm_overwrites(value, reason) ==
    Step(<<>>, unwrap_or(as_str(Index(value, "stopReason")), ""))

\* _ => a non-empty stopReason replaces finish_reason.
other_arm(value, reason) ==
    LET stop_reason == unwrap_or(as_str(Index(value, "stopReason")), "")
    IN  IF stop_reason # "" THEN Step(<<>>, stop_reason) ELSE Step(<<>>, reason)

\* Mutant of parse_error_arm: the parse error is sent to the consumer.
parse_error_arm_surfaces(reason) == Step(<<Error("invalid json")>>, reason)

\* Err(_) => continue, on data that is not JSON.
parse_error_arm(reason) == Step(<<>>, reason)

\* Mutant of on_message: a payload without a string type is skipped whole.
on_message_requires_type(message, reason) ==
    IF message.event # "message" THEN Step(<<>>, reason)
    ELSE LET res == serde_json_from_str(message.data)
         IN  IF ~res.ok THEN parse_error_arm(reason)
             ELSE LET type == unwrap_or(as_str(Index(res.v, "type")), "")
                  IN  CASE type = "think" -> think_arm(res.v, reason)
                        [] type = "text" -> text_arm(res.v, reason)
                        [] type = "" -> Step(<<>>, reason)
                        [] OTHER -> other_arm(res.v, reason)

\* Mutant of on_message: the event name is not looked at.
on_message_any_event(message, reason) ==
    LET res == serde_json_from_str(message.data)
    IN  IF ~res.ok THEN parse_error_arm(reason)
        ELSE LET type == unwrap_or(as_str(Index(res.v, "type")), "")
             IN  CASE type = "think" -> think_arm(res.v, reason)
                   [] type = "text" -> text_arm(res.v, reason)
                   [] OTHER -> other_arm(res.v, reason)

\* Ok(Event::Message(message)) => ...
on_message(message, reason) ==
    IF message.event # "message" THEN Step(<<>>, reason)
    ELSE LET res == serde_json_from_str(message.data)
         IN  IF ~res.ok THEN parse_error_arm(reason)
             ELSE LET type == unwrap_or(as_str(Index(res.v, "type")), "")
                  IN  CASE type = "think" -> think_arm(res.v, reason)
                        [] type = "text" -> text_arm(res.v, reason)
                        [] OTHER -> other_arm(res.v, reason)

\* Mutant of send: the event is put at the front of the queue.
send_front(q, rcv, event) ==
    IF rcv = "held" THEN [ok |-> TRUE, queue |-> <<event>> \o q]
    ELSE [ok |-> FALSE, queue |-> q]

\* Mutant of send: the channel holds one event, and a send that finds it
\* full gives up as it does on a closed channel.
send_bounded(q, rcv, event) ==
    IF rcv = "held" /\ Len(q) < 1 THEN [ok |-> TRUE, queue |-> Append(q, event)]
    ELSE [ok |-> FALSE, queue |-> q]

\* Sender::send on the unbounded channel: the event is appended unless the
\* channel is closed, which it is once the Receiver has been dropped.
send(q, rcv, event) ==
    IF rcv = "held" THEN [ok |-> TRUE, queue |-> Append(q, event)]
    ELSE [ok |-> FALSE, queue |-> q]

\* Mutant of after_loop: the function returns Ok(()) without a Finish.
after_loop_skips(reason) == <<>>

\* What follows the loop: sender.send(Finish(finish_reason)).await?; Ok(())
after_loop(reason) == <<Finish(reason)>>

\* Mutant of on_stream_error: a Finish is sent before the error is returned.
on_stream_error_finishes(reason) == [send |-> after_loop(reason), exit |-> "ErrStream"]

\* Mutant of on_stream_error: the error is sent as an Error event first.
on_stream_error_reports(reason) ==
    [send |-> <<Error("stream error")>>, exit |-> "ErrStream"]

\* Err(err) other than StreamEnded: return Err(anyhow!("stream error ..."))
on_stream_error(reason) == [send |-> <<>>, exit |-> "ErrStream"]

\* Err(StreamEnded), and the else arm of select!: break
on_stream_end(reason) == [send |-> after_loop(reason), exit |-> "Ok"]

(***************************************************************************)
(* Actions                                                                 *)
(***************************************************************************)
InitOver(ids, requests) ==
    /\ request \in [ids -> requests]
    /\ parse = [r \in ids |->
                  LET name == as_common_string(request[r].chat_model)
                  IN  [name |-> name, out |-> ChatModel_from_str(name)]]
    /\ result = [r \in ids |-> "not_called"]
    /\ body = [r \in ids |-> NoBody]
    /\ upstream = [r \in ids |-> <<>>]
    /\ sse = [r \in ids |-> "absent"]
    /\ task = [r \in ids |-> "unspawned"]
    /\ finish_reason = [r \in ids |-> ""]
    /\ queue = [r \in ids |-> <<>>]
    /\ sender = [r \in ids |-> "none"]
    /\ receiver = [r \in ids |-> "none"]
    /\ received = [r \in ids |-> <<>>]
    /\ drained = [r \in ids |-> 0]

Init == InitOver({"r1"}, Requests)

\* create_completion(request): render the prompt, build the body, create
\* the EventSource and the channel, spawn process_sse, return the receiver.
CreateCompletion(r) ==
    /\ result[r] = "not_called"
    /\ request[r].chat_model \in ChatModel
    /\ LET prompt == to_string(request[r].messages)
           b == make_body(prompt.out, request[r].chat_model)
           es == EventSource_new(post_json(b))
       IN  IF prompt.panic
           THEN /\ result' = [result EXCEPT ![r] = "panic"]
                /\ UNCHANGED <<body, sse, task, finish_reason, sender, receiver>>
           ELSE IF ~es.ok
           THEN /\ result' = [result EXCEPT ![r] = "Err"]
                /\ body' = [body EXCEPT ![r] = b]
                /\ UNCHANGED <<sse, task, finish_reason, sender, receiver>>
           ELSE /\ result' = [result EXCEPT ![r] = "Ok"]
                /\ body' = [body EXCEPT ![r] = b]
                /\ sse' = [sse EXCEPT ![r] = es.state]
                /\ sender' = [sender EXCEPT ![r] = "alive"]
                /\ receiver' = [receiver EXCEPT ![r] = "held"]
                /\ task' = [task EXCEPT ![r] = "streaming"]
                /\ finish_reason' = [finish_reason EXCEPT ![r] = InitialFinishReason]
    /\ UNCHANGED <<parse, request, upstream, queue, received, drained>>

\* sse.next() yields Some(Ok(item)): it joins the history, and a Message
\* counts as drained when the Receiver is already gone.
Yield(r, item) ==
    /\ task[r] = "streaming"
    /\ upstream' = [upstream EXCEPT ![r] = Append(@, item)]
    /\ drained' = [drained EXCEPT ![r] =
                      IF receiver[r] = "dropped" /\ item.kind = "Message"
                      THEN @ + 1 ELSE @]

\* Mutant of Return: every request's translator holds a clone of one Sender
\* pair, so that one task's return closes every channel.
Return_closes_all(r, exit) ==
    /\ task' = [task EXCEPT ![r] = exit]
    /\ sender' = [x \in DOMAIN sender |->
                      IF x = r \/ sender[x] = "alive" THEN "dropped" ELSE sender[x]]
    /\ sse' = [sse EXCEPT ![r] = "dropped"]

\* process_sse returns with exit: the task ends, dropping the Sender (which
\* closes the channel) and the EventSource (which closes the connection).
Return(r, exit) ==
    /\ task' = [task EXCEPT ![r] = exit]
    /\ sender' = [sender EXCEPT ![r] = "dropped"]
    /\ sse' = [sse EXCEPT ![r] = "dropped"]

\* Ok(Event::Open) => {}
NextOpen(r) ==
    /\ sse[r] = "connecting"
    /\ Yield(r, EvOpen)
    /\ sse' = [sse EXCEPT ![r] = "open"]
    /\ UNCHANGED <<parse, request, result, body, task, finish_reason, queue, sender, receiver, received>>

\* Ok(Event::Message(message)) => one iteration of the loop body.
NextMessage(r, message) ==
    /\ sse[r] = "open"
    /\ Len(upstream[r]) <= MaxFrames
    /\ Yield(r, message)
    /\ LET step == on_message(message, finish_reason[r])
           sent == IF step.send = <<>> THEN [ok |-> TRUE, queue |-> queue[r]]
                   ELSE send(queue[r], receiver[r], step.send[1])
       IN  /\ finish_reason' = [finish_reason EXCEPT ![r] = step.finish_reason]
           /\ queue' = [queue EXCEPT ![r] = sent.queue]
           /\ IF sent.ok THEN UNCHANGED <<task, sender, sse>>
              ELSE Return(r, "ErrSend")
    /\ UNCHANGED <<parse, request, result, body, receiver, received>>

\* The loop is left (break) or the function returns with the stream's error.
Leave(r, outcome) ==
    /\ task[r] = "streaming"
    /\ LET sent == IF outcome.send = <<>> THEN [ok |-> TRUE, queue |-> queue[r]]
                   ELSE send(queue[r], receiver[r], outcome.send[1])
       IN  /\ queue' = [queue EXCEPT ![r] = sent.queue]
           /\ Return(r, IF sent.ok THEN outcome.exit ELSE "ErrSendFinish")
    /\ UNCHANGED <<parse, request, result, body, upstream, finish_reason, receiver, received, drained>>

\* Err(StreamEnded) => break, then Finish
NextStreamEnded(r) ==
    /\ sse[r] = "open"
    /\ Leave(r, on_stream_end(finish_reason[r]))

\* Mutant of NextNone: the wait for the next item is given up after a while,
\* whether or not the stream has opened, and the loop is left by break.
NextNone_timeout(r) ==
    /\ sse[r] \in {"connecting", "open"}
    /\ Leave(r, on_stream_end(finish_reason[r]))

\* else => break (sse.next() yields None), then Finish
NextNone(r) ==
    /\ sse[r] = "open"
    /\ Leave(r, on_stream_end(finish_reason[r]))

\* Err(err) => return Err: the handshake failed, or the open stream broke.
NextError(r, err) ==
    /\ \/ sse[r] = "connecting" /\ err \in ConnectErrors
       \/ sse[r] = "open" /\ err \in StreamErrors
    /\ Leave(r, on_stream_error(finish_reason[r]))

\* The consumer takes the next event off the channel.
Recv(r) ==
    /\ receiver[r] = "held"
    /\ queue[r] # <<>>
    /\ received' = [received EXCEPT ![r] = Append(@, Head(queue[r]))]
    /\ queue' = [queue EXCEPT ![r] = Tail(@)]
    /\ UNCHANGED <<parse, request, result, body, upstream, sse, task, finish_reason, sender, receiver, drained>>

\* The consumer finds the channel empty and closed (recv gives RecvError).
RecvClosed(r) ==
    /\ receiver[r] = "held"
    /\ queue[r] = <<>>
    /\ sender[r] = "dropped"
    /\ receiver' = [receiver EXCEPT ![r] = "saw_closed"]
    /\ UNCHANGED <<parse, request, result, body, upstream, sse, task, finish_reason, queue, sender, received, drained>>

\* The consumer drops the Receiver, which closes the channel.
DropReceiver(r) ==
    /\ receiver[r] = "held"
    /\ receiver' = [receiver EXCEPT ![r] = "dropped"]
    /\ UNCHANGED <<parse, request, result, body, upstream, sse, task, finish_reason, queue, sender, received, drained>>

Next ==
    \/ \E r \in Rids : CreateCompletion(r)
    \/ \E r \in Rids : NextOpen(r)
    \/ \E r \in Rids, message \in Messages : NextMessage(r, message)
    \/ \E r \in Rids : NextStreamEnded(r)
    \/ \E r \in Rids : NextNone(r)
    \/ \E r \in Rids, err \in ConnectErrors \cup StreamErrors : NextError(r, err)
    \/ \E r \in Rids : Recv(r)
    \/ \E r \in Rids : RecvClosed(r)
    \/ \E r \in Rids : DropReceiver(r)

Spec == Init /\ [][Next]_vars

(***************************************************************************)
(* The pure parts, applied to many inputs: a call arrives with a model     *)
(* name and a conversation; the name goes through ChatModel::from_str, and *)
(* on success the request so built goes to create_completion, which        *)
(* renders the conversation (to_string) and projects the model            *)
(* (as_yuanbao_string) into the body.  The translator is left out.         *)
(***************************************************************************)
Unparsed == [ok |-> FALSE, v |-> "unparsed"]

Unset == "unset"

ModelNames ==
    {as_common_string(m) : m \in ChatModel}
        \cup {"", "deepseek", "DeepSeek-R1", "deepseek-v3 ", "deep_seek_v3", "deep_seek"}

RenderRoles == { <<"u">>, <<" ", "a", "\n">> }

RenderContents == { None(<<>>), Some(<<"x">>), Some(<<" ", "h", " ", "i", "\n">>) }

RenderMessages ==
    {[role |-> ro, content |-> co, reasoning_content |-> None(<<>>)] :
        ro \in RenderRoles, co \in RenderContents}

Conversations == UNION {[1..k -> RenderMessages] : k \in 0..MaxMessages}

InitRender ==
    /\ parse \in [{"r1"} -> {[name |-> n, out |-> Unparsed] : n \in ModelNames}]
    /\ request \in [{"r1"} -> {[messages |-> c, chat_model |-> Unset] : c \in Conversations}]
    /\ result = [r \in {"r1"} |-> "not_called"]
    /\ body = [r \in {"r1"} |-> NoBody]
    /\ upstream = [r \in {"r1"} |-> <<>>]
    /\ sse = [r \in {"r1"} |-> "absent"]
    /\ task = [r \in {"r1"} |-> "unspawned"]
    /\ finish_reason = [r \in {"r1"} |-> ""]
    /\ queue = [r \in {"r1"} |-> <<>>]
    /\ sender = [r \in {"r1"} |-> "none"]
    /\ receiver = [r \in {"r1"} |-> "none"]
    /\ received = [r \in {"r1"} |-> <<>>]
    /\ drained = [r \in {"r1"} |-> 0]

\* name.parse::<ChatModel>(): the outcome is kept, and a parsed model becomes
\* the chat_model of the ChatCompletionRequest.
ParseModel(r) ==
    /\ parse[r].out = Unparsed
    /\ LET out == ChatModel_from_str(parse[r].name)
       IN  /\ parse' = [parse EXCEPT ![r].out = out]
           /\ request' = IF out.ok THEN [request EXCEPT ![r].chat_model = out.v]
                         ELSE request
    /\ UNCHANGED <<result, body, upstream, sse, task, finish_reason, queue, sender,
                   receiver, received, drained>>

NextRender ==
    \/ \E r \in Rids : ParseModel(r)
    \/ \E r \in Rids : CreateCompletion(r)

SpecRender == InitRender /\ [][NextRender]_vars

(***************************************************************************)
(* The translator on frames that mix the fields: a stopReason on a think   *)
(* or text frame, and payloads whose type is absent or not a string.       *)
(***************************************************************************)
TypeMessages ==
    {EvMessage("message", d) :
        d \in {P_ThinkAStop, P_ThinkEmptyStop, P_TextBStop, P_MetaLength, P_NoTypeTool,
               P_NumTypeStop, P_NumType, P_NoTypeNumStop, P_EmptyObject}}

NextTypes ==
    \/ \E r \in Rids : CreateCompletion(r)
    \/ \E r \in Rids : NextOpen(r)
    \/ \E r \in Rids, message \in TypeMessages : NextMessage(r, message)
    \/ \E r \in Rids : NextStreamEnded(r)
    \/ \E r \in Rids : NextNone(r)
    \/ \E r \in Rids, err \in ConnectErrors \cup StreamErrors : NextError(r, err)
    \/ \E r \in Rids : Recv(r)
    \/ \E r \in Rids : RecvClosed(r)
    \/ \E r \in Rids : DropReceiver(r)

SpecTypes == Init /\ [][NextTypes]_vars

(***************************************************************************)
(* Two calls of create_completion in flight at once: each call builds its  *)
(* own EventSource, channel and task (lines 184-192), so the per-request   *)
(* actions are the same and only the set of request ids grows.  The frame  *)
(* alphabet and the stream length are cut down to keep the product small.  *)
(***************************************************************************)
MaxMultiFrames == 2

MultiMessages ==
    { EvMessage("message", P_TextB),
      EvMessage("message", P_MetaLength) }

InitMulti == InitOver({"r1", "r2"}, Requests)

NextMulti ==
    \/ \E r \in Rids : CreateCompletion(r)
    \/ \E r \in Rids : NextOpen(r)
    \/ \E r \in Rids, message \in MultiMessages :
           Len(upstream[r]) <= MaxMultiFrames /\ NextMessage(r, message)
    \/ \E r \in Rids : NextStreamEnded(r)
    \/ \E r \in Rids : NextNone(r)
    \/ \E r \in Rids, err \in ConnectErrors \cup StreamErrors : NextError(r, err)
    \/ \E r \in Rids : Recv(r)
    \/ \E r \in Rids : RecvClosed(r)
    \/ \E r \in Rids : DropReceiver(r)

SpecMulti == InitMulti /\ [][NextMulti]_vars

(***************************************************************************)
(* What the specification expects of a run, read off the history of        *)
(* upstream frames alone (tables per frame, independent of the arms above) *)
(***************************************************************************)
\* Everything that was ever put on request r's channel, in order.
Sent(r) == received[r] \o queue[r]

IsFinish(e) == e.tag = "Finish"

IsMessage(e) == e.tag = "Message"

Last(q) == q[Len(q)]

IsPrefix(p, q) == Len(p) <= Len(q) /\ SubSeq(q, 1, Len(p)) = p

\* The events a frame is to yield: a think frame with non-empty content one
\* Think, a text frame one Msg, every other frame nothing.
SpecEvents(item) ==
    CASE item = EvMessage("message", P_ThinkA) -> <<Message("Think", "a")>>
      [] item = EvMessage("message", P_TextB) -> <<Message("Msg", "b")>>
      [] item = EvMessage("message", P_TextEmpty) -> <<Message("Msg", "")>>
      [] item = EvMessage("message", P_TextStop) -> <<Message("Msg", "")>>
      [] item = EvMessage("message", P_ThinkAStop) -> <<Message("Think", "a")>>
      [] item = EvMessage("message", P_TextBStop) -> <<Message("Msg", "b")>>
      [] OTHER -> <<>>

\* The stop reason a frame is to set ("" when it sets none): the non-empty
\* stopReason of a message-named frame that is neither think nor text.
SpecStop(item) ==
    CASE item = EvMessage("message", P_MetaLength) -> "length"
      [] item = EvMessage("message", P_NoTypeTool) -> "tool"
      [] item = EvMessage("message", P_NumTypeStop) -> "tool"
      [] OTHER -> ""

RECURSIVE ExpectedMessages(_)
ExpectedMessages(items) ==
    IF items = <<>> THEN <<>>
    ELSE SpecEvents(Head(items)) \o ExpectedMessages(Tail(items))

RECURSIVE LastStopReason(_)
LastStopReason(items) ==
    IF items = <<>> THEN "stop"
    ELSE IF SpecStop(Last(items)) # "" THEN SpecStop(Last(items))
         ELSE LastStopReason(SubSeq(items, 1, Len(items) - 1))

NoStopReason(items) == \A i \in 1..Len(items) : SpecStop(items[i]) = ""

\* process_sse left its loop by break: the stream ended cleanly.
CleanEnd(r) == task[r] \in {"Ok", "ErrSendFinish"}

(***************************************************************************)
(* Claims                                                                  *)
(***************************************************************************)
\* C1: when the upstream ends cleanly (StreamEnded, or the source is
\* exhausted) and the consumer still has its receiving end, the channel got
\* exactly one Finish, the Finish is the last item ever put on the channel,
\* and the channel is closed; in no state does anything follow a Finish.
C1_FinishOnceAndLast ==
    \A r \in Rids :
        /\ \A i \in 1..Len(Sent(r)) : IsFinish(Sent(r)[i]) => i = Len(Sent(r))
        /\ (CleanEnd(r) /\ receiver[r] # "dropped") => task[r] = "Ok"
        /\ task[r] = "Ok" =>
                /\ Sent(r) # <<>>
                /\ IsFinish(Last(Sent(r)))
                /\ sender[r] = "dropped"

C1_Witness ==
    /\ task["r1"] = "Ok"
    /\ receiver["r1"] = "saw_closed"
    /\ Len(received["r1"]) = 3
    /\ IsFinish(received["r1"][3])

\* C2: the Message events on the channel, and those the consumer has
\* received, are the events of the emitting frames in arrival order, one
\* event per frame: nothing reordered, merged or dropped as a duplicate,
\* whatever the interleaving of sends and receives.
C2_OrderPreserved ==
    \A r \in Rids :
        /\ receiver[r] # "dropped" =>
                SelectSeq(Sent(r), IsMessage) = ExpectedMessages(upstream[r])
        /\ IsPrefix(SelectSeq(Sent(r), IsMessage), ExpectedMessages(upstream[r]))

C2_Witness ==
    /\ upstream["r1"] = <<EvOpen, EvMessage("message", P_ThinkA),
                          EvMessage("message", P_ThinkA), EvMessage("message", P_TextB)>>
    /\ received["r1"] = <<Message("Think", "a"), Message("Think", "a")>>
    /\ queue["r1"] = <<Message("Msg", "b")>>

\* C3: when the stream reports an error other than StreamEnded, the task
\* stops; what was emitted before the error is on the channel in order, no
\* Finish is on it, and the channel is closed: a consumer that reads to the
\* closure has seen the events and no Finish.
C3_ErrorClosesWithoutFinish ==
    \A r \in Rids :
        task[r] = "ErrStream" =>
            /\ \A i \in 1..Len(Sent(r)) : ~IsFinish(Sent(r)[i])
            /\ sender[r] = "dropped"
            /\ receiver[r] # "dropped" => Sent(r) = ExpectedMessages(upstream[r])
            /\ receiver[r] = "saw_closed" => received[r] = ExpectedMessages(upstream[r])

C3_Witness ==
    /\ task["r1"] = "ErrStream"
    /\ receiver["r1"] = "saw_closed"
    /\ received["r1"] = <<Message("Think", "a"), Message("Msg", "b")>>

\* The stream's error came before any Event::Open: the handshake failed.
HandshakeFailed(r) == task[r] = "ErrStream" /\ upstream[r] = <<>>

\* C4: when the SSE handshake cannot be established, create_completion
\* returns an error to its caller, who gets no channel, and no translator
\* task exists for the request.
C4_HandshakeErrorIsSynchronous ==
    \A r \in Rids :
        HandshakeFailed(r) => result[r] = "Err" /\ receiver[r] = "none"

\* C5: once the consumer has dropped the receiving end, the translator's
\* next send fails and ends the task with no Finish on the channel, and the
\* translator does not go on reading and discarding upstream frames until
\* the upstream ends: it never reaches the clean end of a stream having
\* read frames for a consumer that was already gone.
C5_NoDrainAfterDrop ==
    \A r \in Rids :
        /\ task[r] \in {"ErrSend", "ErrSendFinish"} =>
                /\ receiver[r] = "dropped"
                /\ sse[r] = "dropped"
                /\ \A i \in 1..Len(Sent(r)) : ~IsFinish(Sent(r)[i])
        /\ task[r] = "ErrSendFinish" => drained[r] = 0

\* C6: when no frame sets a non-empty stopReason and the stream ends
\* cleanly, the final event on the channel is Finish("stop").
C6_FinishDefaultsToStop ==
    \A r \in Rids :
        (task[r] = "Ok" /\ NoStopReason(upstream[r])) =>
            Last(Sent(r)) = Finish("stop")

C6_Witness ==
    /\ task["r1"] = "Ok"
    /\ upstream["r1"] = <<EvOpen, EvMessage("message", P_TextStop),
                          EvMessage("message", P_MetaEmpty), EvMessage("message", P_ThinkA)>>
    /\ Last(Sent("r1")) = Finish("stop")

\* C7: once a frame that is neither think nor text has set the finish
\* reason to a non-empty stopReason, the frames after it that set none
\* leave it as it is, and on a clean end the Finish carries the last
\* non-empty stopReason that was set.
C7_LastStopReasonWins ==
    \A r \in Rids :
        ~NoStopReason(upstream[r]) =>
            /\ finish_reason[r] = LastStopReason(upstream[r])
            /\ task[r] = "Ok" => Last(Sent(r)) = Finish(LastStopReason(upstream[r]))

C7_Witness ==
    /\ task["r1"] = "Ok"
    /\ upstream["r1"] = <<EvOpen, EvMessage("message", P_MetaLength),
                          EvMessage("message", P_MetaEmpty), EvMessage("message", P_TextB)>>
    /\ Last(Sent("r1")) = Finish("length")

\* The step reads frame m on request r.
ReadFrame(r, m) == upstream'[r] = Append(upstream[r], m)

\* C8: a think frame puts one Think event on the channel exactly when its
\* content is present and non-empty, and otherwise (content empty, absent,
\* or not a string) puts nothing and leaves the task streaming; a text
\* frame always puts exactly one Msg event, with the empty string for an
\* absent or empty msg.
C8_ThinkSuppressedTextForwarded ==
    [][\A r \in Rids :
        receiver[r] = "held" =>
            /\ ReadFrame(r, EvMessage("message", P_ThinkA)) =>
                    queue'[r] = Append(queue[r], Message("Think", "a"))
            /\ (\/ ReadFrame(r, EvMessage("message", P_ThinkEmpty))
                \/ ReadFrame(r, EvMessage("message", P_ThinkStop))
                \/ ReadFrame(r, EvMessage("message", P_ThinkNum))) =>
                    queue'[r] = queue[r] /\ task'[r] = "streaming"
            /\ ReadFrame(r, EvMessage("message", P_TextB)) =>
                    queue'[r] = Append(queue[r], Message("Msg", "b"))
            /\ (\/ ReadFrame(r, EvMessage("message", P_TextEmpty))
                \/ ReadFrame(r, EvMessage("message", P_TextStop))) =>
                    queue'[r] = Append(queue[r], Message("Msg", ""))]_vars

C8_Witness ==
    /\ upstream["r1"] = <<EvOpen, EvMessage("message", P_ThinkEmpty),
                          EvMessage("message", P_TextEmpty), EvMessage("message", P_ThinkStop)>>
    /\ task["r1"] = "streaming"
    /\ Sent("r1") = <<Message("Msg", "")>>

IsMalformed(item) == item = EvMessage("message", P_Truncated)

NotMalformed(item) == ~IsMalformed(item)

\* C9: a message-named frame whose data is not JSON puts nothing on the
\* channel, leaves the finish reason and the task as they are, and the run
\* ends as the run without that frame would: on a clean end the channel
\* holds the events of the other frames and then the Finish.
C9_MalformedFrameSkipped ==
    /\ [][\A r \in Rids :
            ReadFrame(r, EvMessage("message", P_Truncated)) =>
                /\ queue'[r] = queue[r]
                /\ finish_reason'[r] = finish_reason[r]
                /\ task'[r] = "streaming"
                /\ sender'[r] = sender[r]]_vars
    /\ [](\A r \in Rids :
            (task[r] = "Ok" /\ receiver[r] # "dropped") =>
                Sent(r) =
                    ExpectedMessages(SelectSeq(upstream[r], NotMalformed))
                        \o <<Finish(LastStopReason(SelectSeq(upstream[r], NotMalformed)))>>)

C9_Witness ==
    /\ upstream["r1"] = <<EvOpen, EvMessage("message", P_TextB),
                          EvMessage("message", P_Truncated), EvMessage("message", P_TextB)>>
    /\ received["r1"] = <<Message("Msg", "b"), Message("Msg", "b"), Finish("stop")>>

\* C10: a call whose message sequence is empty returns an error: no prompt
\* is rendered, no upstream request is built or issued, no channel returned.
C10_EmptyMessagesRejected ==
    \A r \in Rids :
        (request[r].messages = <<>> /\ result[r] # "not_called") =>
            /\ result[r] = "Err"
            /\ body[r] = NoBody
            /\ sse[r] = "absent"
            /\ receiver[r] = "none"

\* C11: a call that opens its request returns the receiving end in the step
\* that creates the channel and spawns the translator, before the source is
\* polled even once: at the return the task is streaming, nothing has been
\* read from the upstream, and the channel is empty and open.
C11_ReturnsBeforeAnyFrame ==
    [][\A r \in Rids :
        (result[r] = "not_called" /\ result'[r] = "Ok") =>
            /\ task'[r] = "streaming"
            /\ sse'[r] = "connecting"
            /\ upstream'[r] = <<>>
            /\ receiver'[r] = "held"
            /\ sender'[r] = "alive"
            /\ queue'[r] = <<>>
            /\ received'[r] = <<>>]_vars

C11_Witness ==
    /\ result["r1"] = "Ok"
    /\ receiver["r1"] = "held"
    /\ sender["r1"] = "alive"
    /\ task["r1"] = "streaming"
    /\ upstream["r1"] = <<>>
    /\ queue["r1"] = <<>>

\* C12: with two requests in flight, a step of one request (a frame, an
\* error, the end of its stream, its call or its consumer's cancellation)
\* leaves the other request's channel, finish reason and translator as they
\* were; and at all times each request's finish reason and the messages on
\* its channel are those its own frames dictate, starting from "stop".
ActsOn(r) ==
    \/ result'[r] # result[r]
    \/ upstream'[r] # upstream[r]
    \/ task'[r] # task[r]
    \/ receiver'[r] # receiver[r]
    \/ received'[r] # received[r]

Untouched(o) ==
    /\ queue'[o] = queue[o]
    /\ received'[o] = received[o]
    /\ finish_reason'[o] = finish_reason[o]
    /\ sender'[o] = sender[o]
    /\ task'[o] = task[o]
    /\ sse'[o] = sse[o]
    /\ upstream'[o] = upstream[o]

OwnFramesOnly(r) ==
    /\ finish_reason[r] = LastStopReason(upstream[r])
    /\ IsPrefix(SelectSeq(Sent(r), IsMessage), ExpectedMessages(upstream[r]))
    /\ \A i \in 1..Len(Sent(r)) :
          IsFinish(Sent(r)[i]) => Sent(r)[i] = Finish(LastStopReason(upstream[r]))

C12_RequestsAreIsolated ==
    /\ [][\A r \in Rids : \A o \in Rids \ {r} : ActsOn(r) => Untouched(o)]_vars
    /\ [](\A r \in Rids : task[r] # "unspawned" => OwnFramesOnly(r))

C12_Witness ==
    /\ task["r1"] = "Ok" /\ task["r2"] = "ErrStream"
    /\ upstream["r1"] = <<EvOpen, EvMessage("message", P_TextB)>>
    /\ upstream["r2"] = <<EvOpen, EvMessage("message", P_MetaLength),
                          EvMessage("message", P_TextB)>>
    /\ Sent("r1") = <<Message("Msg", "b"), Finish("stop")>>
    /\ Sent("r2") = <<Message("Msg", "b")>>
    /\ finish_reason["r2"] = "length"

\* C13: the prompt of a rendered conversation is, for one message, its
\* content as given (untrimmed, no header, empty when absent), and for more
\* than one, the blocks "#[" role "]\n" content "\n\n" in order, role and
\* content stripped of surrounding whitespace; an empty conversation does
\* not render, so that no body is built from it.
Strip(s) ==
    LET keep == {i \in 1..Len(s) : s[i] \notin Whitespace}
    IN  IF keep = {} THEN <<>>
        ELSE SubSeq(s, CHOOSE i \in keep : \A j \in keep : i <= j,
                       CHOOSE i \in keep : \A j \in keep : i >= j)

ContentOf(m) == IF m.content.some THEN m.content.v ELSE <<>>

Block(m) ==
    <<"#", "[">> \o Strip(m.role) \o <<"]", "\n">> \o Strip(ContentOf(m)) \o <<"\n", "\n">>

RECURSIVE Blocks(_, _)
Blocks(arr, n) == IF n = 0 THEN <<>> ELSE Blocks(arr, n - 1) \o Block(arr[n])

ExpectedPrompt(arr) ==
    IF Len(arr) = 1 THEN ContentOf(arr[1]) ELSE Blocks(arr, Len(arr))

C13_RenderingRule ==
    \A r \in Rids :
        result[r] # "not_called" =>
            IF request[r].messages = <<>>
            THEN result[r] # "Ok" /\ body[r] = NoBody
            ELSE body[r].prompt = ExpectedPrompt(request[r].messages)

C13_Witness ==
    /\ result["r1"] = "Ok"
    /\ Len(request["r1"].messages) = 2
    /\ request["r1"].messages[1].role = <<" ", "a", "\n">>
    /\ request["r1"].messages[2].content = None(<<>>)
    /\ body["r1"].prompt =
          <<"#", "[", "a", "]", "\n", "h", " ", "i", "\n", "\n",
            "#", "[", "u", "]", "\n", "\n", "\n">>

\* A single message is rendered as its content, whitespace included.
C13_WitnessSingle ==
    /\ result["r1"] = "Ok"
    /\ Len(request["r1"].messages) = 1
    /\ body["r1"].prompt = <<" ", "h", " ", "i", "\n">>

\* C14: parsing accepts exactly the two public names and gives back the
\* variant whose public name it was ("deepseek-r1" gives DeepSeekR1); every
\* other string is refused with "invalid model"; the upstream id is defined
\* for every variant, is "deep_seek_v3" for DeepSeekV3, and differs between
\* distinct variants.
PublicNames == {"deepseek-v3", "deepseek-r1"}

C14_ModelNaming ==
    /\ \A r \in Rids :
          parse[r].out # Unparsed =>
              /\ parse[r].out.ok <=> parse[r].name \in PublicNames
              /\ parse[r].out.ok =>
                    /\ parse[r].out.v \in ChatModel
                    /\ as_common_string(parse[r].out.v) = parse[r].name
                    /\ request[r].chat_model = parse[r].out.v
              /\ parse[r].name = "deepseek-r1" => parse[r].out.v = "DeepSeekR1"
              /\ ~parse[r].out.ok =>
                    parse[r].out.v = "invalid model" /\ result[r] = "not_called"
    /\ \A r \in Rids :
          result[r] = "Ok" =>
              /\ body[r].chatModelId = as_yuanbao_string(request[r].chat_model)
              /\ parse[r].name = "deepseek-v3" => body[r].chatModelId = "deep_seek_v3"
    /\ \A m \in ChatModel : ChatModel_from_str(as_common_string(m)) = [ok |-> TRUE, v |-> m]
    /\ \A m1, m2 \in ChatModel : m1 # m2 => as_yuanbao_string(m1) # as_yuanbao_string(m2)

C14_Witness ==
    /\ parse["r1"].name = "deepseek-r1"
    /\ parse["r1"].out = [ok |-> TRUE, v |-> "DeepSeekR1"]
    /\ result["r1"] = "Ok"
    /\ body["r1"].chatModelId = "deep_seek"

\* A name that differs from a public name only by case is refused.
C14_WitnessRefused ==
    /\ parse["r1"].name = "DeepSeek-R1"
    /\ parse["r1"].out = [ok |-> FALSE, v |-> "invalid model"]

\* C15: reading the Open event, or a message whose event name is not
\* "message" (whatever type or stopReason its payload carries), puts nothing
\* on the channel, leaves the finish reason as it was and leaves the
\* translator streaming with its channel open.
IsIgnoredItem(item) == item.kind = "Open" \/ (item.kind = "Message" /\ item.event # "message")

C15_OpenAndForeignEventsIgnored ==
    [][\A r \in Rids :
        (\E item \in {EvOpen} \cup Messages : IsIgnoredItem(item) /\ ReadFrame(r, item)) =>
            /\ queue'[r] = queue[r]
            /\ received'[r] = received[r]
            /\ finish_reason'[r] = finish_reason[r]
            /\ task'[r] = "streaming"
            /\ sender'[r] = "alive"]_vars

C15_Witness ==
    /\ upstream["r1"] = <<EvOpen, EvMessage("status", P_MetaLength),
                          EvMessage("status", P_TextB)>>
    /\ Sent("r1") = <<>>
    /\ finish_reason["r1"] = "stop"
    /\ task["r1"] = "streaming"
    /\ receiver["r1"] = "dropped"

\* C16: a send depends on the Receiver being alive and on nothing else: no
\* send fails while the Receiver is held, however many events are waiting;
\* when the consumer has taken nothing, every message translated so far is
\* in the channel, and a stream that has ended cleanly has its Finish there
\* too, the task having returned Ok.
C16_SendNeverWaitsForConsumer ==
    \A r \in Rids :
        /\ task[r] \in {"ErrSend", "ErrSendFinish"} => receiver[r] = "dropped"
        /\ (task[r] # "unspawned" /\ receiver[r] = "held" /\ received[r] = <<>>) =>
              /\ SelectSeq(queue[r], IsMessage) = ExpectedMessages(upstream[r])
              /\ CleanEnd(r) =>
                    /\ task[r] = "Ok"
                    /\ queue[r] = ExpectedMessages(upstream[r])
                                     \o <<Finish(LastStopReason(upstream[r]))>>

C16_Witness ==
    /\ task["r1"] = "Ok"
    /\ receiver["r1"] = "held"
    /\ received["r1"] = <<>>
    /\ queue["r1"] = <<Message("Think", "a"), Message("Msg", "b"), Message("Msg", ""),
                       Finish("stop")>>

\* C17: a streaming translator has sent no Finish and holds its channel
\* open, and nothing but the upstream moves it: the consumer's steps leave
\* it as it is, and it stops streaming only by a clean end of an opened
\* stream (Finish sent or its send refused), by a stream error (no event
\* sent), or by a refused send of a frame it has just read.
ConsumerStep(r) ==
    receiver[r] = "held" /\ (received'[r] # received[r] \/ receiver'[r] # receiver[r])

TranslatorUntouched(r) ==
    /\ task'[r] = task[r]
    /\ sender'[r] = sender[r]
    /\ sse'[r] = sse[r]
    /\ upstream'[r] = upstream[r]
    /\ finish_reason'[r] = finish_reason[r]

StopsFor(r) ==
    \/ /\ task'[r] = "Ok"
       /\ sse[r] = "open"
       /\ upstream'[r] = upstream[r]
       /\ queue'[r] = Append(queue[r], Finish(finish_reason[r]))
    \/ /\ task'[r] = "ErrSendFinish"
       /\ sse[r] = "open"
       /\ upstream'[r] = upstream[r]
       /\ receiver[r] = "dropped"
       /\ queue'[r] = queue[r]
    \/ /\ task'[r] = "ErrStream"
       /\ upstream'[r] = upstream[r]
       /\ queue'[r] = queue[r]
    \/ /\ task'[r] = "ErrSend"
       /\ receiver[r] = "dropped"
       /\ Len(upstream'[r]) = Len(upstream[r]) + 1
       /\ SpecEvents(Last(upstream'[r])) # <<>>
       /\ queue'[r] = queue[r]

C17_OnlyTheUpstreamEndsTheTranslator ==
    /\ [](\A r \in Rids :
            task[r] = "streaming" =>
                /\ sender[r] = "alive"
                /\ sse[r] \in {"connecting", "open"}
                /\ \A i \in 1..Len(Sent(r)) : ~IsFinish(Sent(r)[i]))
    /\ [][\A r \in Rids :
            /\ ConsumerStep(r) => TranslatorUntouched(r)
            /\ (task[r] = "streaming" /\ task'[r] # "streaming") => StopsFor(r)]_vars

C17_Witness ==
    /\ task["r1"] = "streaming"
    /\ sender["r1"] = "alive"
    /\ upstream["r1"] = <<EvOpen, EvMessage("message", P_ThinkA)>>
    /\ received["r1"] = <<Message("Think", "a")>>
    /\ queue["r1"] = <<>>
    /\ receiver["r1"] = "held"

\* C18: no Error event is ever put on the channel: everything sent is a
\* Message (Think or Msg) or a Finish; a translator that failed (stream
\* error or refused send) has closed its channel, and what it sent holds
\* neither an Error nor a Finish.
Failed(r) == task[r] \in {"ErrStream", "ErrSend", "ErrSendFinish"}

C18_NoErrorEventOnChannel ==
    \A r \in Rids :
        /\ \A i \in 1..Len(Sent(r)) :
              /\ Sent(r)[i].tag \in {"Message", "Finish"}
              /\ Sent(r)[i] # Error(Sent(r)[i].text)
              /\ IsMessage(Sent(r)[i]) => Sent(r)[i].type \in {"Think", "Msg"}
        /\ Failed(r) =>
              /\ sender[r] = "dropped"
              /\ \A i \in 1..Len(Sent(r)) : IsMessage(Sent(r)[i])

C18_Witness ==
    /\ task["r1"] = "ErrStream"
    /\ upstream["r1"] = <<EvOpen, EvMessage("message", P_Truncated),
                          EvMessage("message", P_TextB)>>
    /\ received["r1"] = <<Message("Msg", "b")>>
    /\ receiver["r1"] = "saw_closed"

\* C19: reading a think or text frame that carries a stopReason leaves the
\* finish reason as it was, whether the frame puts an event on the channel
\* (think with content, text) or not (think with empty content); a stream
\* that ends cleanly and whose only stopReason came on such frames ends
\* with Finish("stop").
StopOnThinkOrText == {P_ThinkAStop, P_ThinkEmptyStop, P_TextBStop}

HasStopOnThinkOrText(items) ==
    \E i \in 1..Len(items) : \E d \in StopOnThinkOrText : items[i] = EvMessage("message", d)

C19_StopReasonOnThinkOrTextIgnored ==
    /\ [][\A r \in Rids : \A d \in StopOnThinkOrText :
            ReadFrame(r, EvMessage("message", d)) =>
                /\ finish_reason'[r] = finish_reason[r]
                /\ receiver[r] = "held" =>
                      queue'[r] = queue[r] \o SpecEvents(EvMessage("message", d))]_vars
    /\ [](\A r \in Rids :
            (task[r] = "Ok" /\ HasStopOnThinkOrText(upstream[r])
                 /\ NoStopReason(upstream[r])) =>
                Last(Sent(r)) = Finish("stop"))

C19_Witness ==
    /\ task["r1"] = "Ok"
    /\ upstream["r1"] = <<EvOpen, EvMessage("message", P_ThinkEmptyStop),
                          EvMessage("message", P_ThinkAStop),
                          EvMessage("message", P_TextBStop)>>
    /\ Sent("r1") = <<Message("Think", "a"), Message("Msg", "b"), Finish("stop")>>

\* C20: a message-named JSON frame whose type is absent or not a string
\* puts nothing on the channel; a non-empty string stopReason in it becomes
\* the finish reason, and without one (none at all, or one that is not a
\* string) the frame changes nothing.
UntypedWithStop == {P_NoTypeTool, P_NumTypeStop}

UntypedWithoutStop == {P_NumType, P_NoTypeNumStop, P_EmptyObject}

C20_UntypedFrameIsOther ==
    [][\A r \in Rids :
        /\ \A d \in UntypedWithStop :
              ReadFrame(r, EvMessage("message", d)) =>
                  /\ finish_reason'[r] = "tool"
                  /\ queue'[r] = queue[r]
                  /\ task'[r] = task[r]
        /\ \A d \in UntypedWithoutStop :
              ReadFrame(r, EvMessage("message", d)) =>
                  /\ finish_reason'[r] = finish_reason[r]
                  /\ queue'[r] = queue[r]
                  /\ task'[r] = task[r]]_vars

C20_Witness ==
    /\ task["r1"] = "Ok"
    /\ upstream["r1"] = <<EvOpen, EvMessage("message", P_MetaLength),
                          EvMessage("message", P_NumTypeStop),
                          EvMessage("message", P_EmptyObject)>>
    /\ Sent("r1") = <<Finish("tool")>>

\* The same with the type absent: the frame's stopReason is the reason sent.
C20_WitnessAbsent ==
    /\ task["r1"] = "Ok"
    /\ upstream["r1"] = <<EvOpen, EvMessage("message", P_MetaLength),
                          EvMessage("message", P_NoTypeTool),
                          EvMessage("message", P_NoTypeNumStop)>>
    /\ Sent("r1") = <<Finish("tool")>>

====
